---- MODULE Spec2Model ----
(***************************************************************************)
(* s3pconvert.py: conversion between an S3P archive (a.s3p) and the        *)
(* directory of extracted ASF files plus metadata.json (a/).               *)
(*                                                                         *)
(* Bytes are naturals 0..255 and a bytes object is a sequence of them.     *)
(* A Python int is arbitrary precision: it is modelled by its canonical    *)
(* little-endian base-256 digit sequence (no most-significant zero digit,  *)
(* 0 is <<>>), so that values above 2^32 - 1 exist in the model.           *)
(* Only non-negative ints are modelled.                                    *)
(*                                                                         *)
(* main() is run twice: on a.s3p and then on the directory a/ it wrote, or *)
(* on a dumped directory a/ and then on the a.s3p it wrote.  The output    *)
(* path is the current directory, so the checks of lines 64-71 pass.       *)
(* Assertions are enabled (python without -O).  An invocation ends by      *)
(* returning ("ok"), by exit() ("exit") or by an uncaught exception         *)
(* (its name); `status` keeps how the last one ended.                      *)
(***************************************************************************)
EXTENDS Integers, Sequences, FiniteSets, TLC

VARIABLES
    s3p_file,       \* content of the file a.s3p, or NoFile
    directory,      \* the directory a/: [files, metadata_json]
    todo,           \* input paths of the invocations of main() still to run
    pc,             \* position inside main()
    status,         \* how the last finished invocation ended
    reader_pos,     \* cursor of `reader` (the outer BinaryReader)
    num_s3v,        \* main: num_s3v
    index,          \* main: index of the extract loop
    start_pointer,  \* main: start_pointer
    length,         \* main: length
    return_pointer, \* main: return_pointer
    s3v_file,       \* main: s3v_file, the blob of the current entry
    s3v_pos,        \* cursor of `s3v_reader`
    metadata,       \* main: metadata (list of records)
    s3vs,           \* main: s3vs, the finished S3V writers' buffers
    s3v,            \* main: s3v, the writer last constructed
    s3p,            \* main: s3p, the archive writer
    given           \* history: [s3p_file, directory] as they were at start

vars == <<s3p_file, directory, todo, pc, status, reader_pos, num_s3v, index,
          start_pointer, length, return_pointer, s3v_file, s3v_pos, metadata,
          s3vs, s3v, s3p, given>>

-----------------------------------------------------------------------------
(* Bounds of the model *)

MaxEntries == 2
MaxAssetLen == 2

-----------------------------------------------------------------------------
(* Constants of the program *)

S3P == <<83, 51, 80, 48>>      \* b'S3P0'
S3V == <<83, 51, 86, 48>>      \* b'S3V0'
S3P_PATH == "a.s3p"            \* an input path that names a file
DIR_PATH == "a"                \* an input path that names a directory

\* a path of the file system: absent, or a file with its content
NoFile == [exists |-> FALSE, content |-> <<>>]
File(content) == [exists |-> TRUE, content |-> content]

Min(a, b) == IF a < b THEN a ELSE b

-----------------------------------------------------------------------------
(* Python ints *)

RECURSIVE Canonical(_)
\* drop the most significant zero digits
Canonical(d) ==
    IF d = <<>> THEN <<>>
    ELSE IF d[Len(d)] = 0 THEN Canonical(SubSeq(d, 1, Len(d) - 1))
    ELSE d

RECURSIVE AsInt(_)
\* the Python int of a (small) natural number
AsInt(n) == IF n = 0 THEN <<>> ELSE <<n % 256>> \o AsInt(n \div 256)

RECURSIVE ToNat(_)
\* the natural number of a Python int, where the program uses one as a
\* position, a length or a loop bound
ToNat(v) == IF v = <<>> THEN 0 ELSE v[1] + 256 * ToNat(Tail(v))

\* int.from_bytes(data, 'little')
from_bytes(data) == Canonical(data)

\* value.to_bytes(0x4, 'little'): OverflowError when the value does not fit
to_bytes_overflows(value) == Len(value) > 4
to_bytes(value) == [i \in 1..4 |-> IF i <= Len(value) THEN value[i] ELSE 0]

-----------------------------------------------------------------------------
(* Format *)

\* variant: a value that is no member is taken for the S3V tag
Format_unchecked(value) == IF value = S3P THEN "S3P" ELSE "S3V"

\* Format(value): the Enum lookup; a value that is no member raises ValueError
Format(value) ==
    IF value = S3P THEN "S3P"
    ELSE IF value = S3V THEN "S3V"
    ELSE "ValueError"

-----------------------------------------------------------------------------
(* BinaryReader over a bytes object `file` with cursor `pos` *)

\* file.read(length): the bytes from the cursor on, at most `length` of them
read(file, pos, n) ==
    LET left == Len(file) - pos
        data == IF left <= 0 THEN <<>>
                ELSE SubSeq(file, pos + 1, pos + Min(n, left))
    IN  [data |-> data, pos |-> pos + Len(data)]

\* read_u32: int.from_bytes of whatever file.read(0x4) returned
read_u32(file, pos) ==
    LET r == read(file, pos, 4)
    IN  [value |-> from_bytes(r.data), pos |-> r.pos]

-----------------------------------------------------------------------------
(* BinaryWriter: [buffer, raised]; `raised` records that a call on it raised *)
(* OverflowError, after which the rest of the statements are not executed    *)

NewWriter == [buffer |-> <<>>, raised |-> FALSE]

len(w) == Len(w.buffer)

write(w, value) ==
    IF w.raised THEN w ELSE [w EXCEPT !.buffer = @ \o value]

\* variant: the value is reduced modulo 2^32 instead of being refused
write_u32_wraps(w, value) ==
    IF w.raised THEN w
    ELSE [w EXCEPT !.buffer = @ \o to_bytes(value)]

write_u32(w, value) ==
    IF w.raised THEN w
    ELSE IF to_bytes_overflows(value) THEN [w EXCEPT !.raised = TRUE]
    ELSE [w EXCEPT !.buffer = @ \o to_bytes(value)]

-----------------------------------------------------------------------------
(* json and the file names *)

KEYS == <<"filename", "unk1", "unk2", "unk3", "unk4", "unk5">>

\* json.dumps(metadata): each dict becomes its list of (key, value) members
json_dumps(md) ==
    [i \in 1..Len(md) |-> [j \in 1..Len(KEYS) |-> <<KEYS[j], md[i][KEYS[j]]>>]]

\* json.load(metadata_file): each object becomes a dict again
json_load(doc) ==
    [i \in 1..Len(doc) |->
        [k \in {doc[i][j][1] : j \in 1..Len(doc[i])} |->
            doc[i][CHOOSE j \in 1..Len(doc[i]) : doc[i][j][1] = k][2]]]

\* f'{index}.asf'
asf_output_name(i) == ToString(i) \o ".asf"

NoFiles == [name \in {} |-> <<>>]
EmptyDirectory == [files |-> NoFiles, metadata_json |-> NoFile]

\* input_path.is_file()
is_file(path) == path = S3P_PATH /\ s3p_file.exists

\* Path(input_path, METADATA_FILENAME).exists()
metadata_exists(path) == path = DIR_PATH /\ directory.metadata_json.exists

-----------------------------------------------------------------------------
(* The inputs: archives and dumped directories the program is started on *)

\* the fixed 4-byte little-endian layout of the format, for small naturals
LE4(n) == <<n % 256, (n \div 256) % 256, (n \div 65536) % 256,
            (n \div 16777216) % 256>>

Asset(n) == [i \in 1..n |-> 6 + i]
AssetInputs == {Asset(n) : n \in 0..MaxAssetLen}

\* the five opaque fields of an entry, as Python ints
UnkUsual == <<<<>>, <<>>, <<0, 2>>, <<>>, <<>>>>             \* (0,0,512,0,0)
UnkOther == <<<<1>>, <<255, 255, 255, 255>>, <<3>>, <<0, 0, 0, 4>>, <<5>>>>
UnkTooBig == <<<<>>, <<>>, <<0, 0, 0, 0, 1>>, <<9>>, <<>>>>   \* unk3 = 2^32

EntryInputs(asfs, unks) == [asf : asfs, unk : unks]

RECURSIVE Concat(_)
Concat(ss) == IF ss = <<>> THEN <<>> ELSE Head(ss) \o Concat(Tail(ss))

RECURSIVE SumLen(_)
SumLen(ss) == IF ss = <<>> THEN 0 ELSE Len(Head(ss)) + SumLen(Tail(ss))

\* the S3V wrapper of the format: tag, pointer 32, length, opaque fields, asset
WrapperOf(e) ==
    S3V \o LE4(32) \o LE4(Len(e.asf))
        \o Concat([k \in 1..5 |-> to_bytes(e.unk[k])]) \o e.asf

\* the well-formed archive of the given entries: tag, count, descriptors,
\* contiguous wrappers, and a terminator equal to the total length
ArchiveOf(es) ==
    LET n == Len(es)
        ws == [i \in 1..n |-> WrapperOf(es[i])]
        off(i) == 8 + 8 * n + SumLen(SubSeq(ws, 1, i - 1))
        body == S3P \o LE4(n)
                    \o Concat([i \in 1..n |-> LE4(off(i)) \o LE4(Len(ws[i]))])
                    \o Concat(ws)
    IN  body \o LE4(Len(body) + 4)

EntryLists(asfs, unks) ==
    UNION {[1..n -> EntryInputs(asfs, unks)] : n \in 0..MaxEntries}

MutationBytes == {0, 33, 80, 86}

\* a damaged archive: cut short, or with one byte replaced
Truncations(a) == {SubSeq(a, 1, t) : t \in 0..(Len(a) - 1)}
Replacements(a) ==
    {[a EXCEPT ![p] = b] : p \in 1..Len(a), b \in MutationBytes}

ArchiveInputs ==
    {ArchiveOf(es) : es \in EntryLists(AssetInputs, {UnkUsual, UnkOther})}
    \cup UNION {Truncations(ArchiveOf(es)) \cup Replacements(ArchiveOf(es)) :
                    es \in EntryLists({Asset(0), Asset(MaxAssetLen)},
                                      {UnkUsual})}

\* the file names of the records of a metadata list of n records
NameInputs(n) ==
    {[i \in 1..n |-> asf_output_name(i - 1)],
     [i \in 1..n |-> asf_output_name(i % n)],
     [i \in 1..n |-> asf_output_name(0)]}

\* a dumped directory: n asset files "<i>.asf", the last possibly missing,
\* and a metadata.json of n records
DirectoryInputs ==
    UNION {
      { [files |-> [name \in {asf_output_name(i - 1) : i \in (1..n) \ {gone}}
                        |-> CHOOSE d \in AssetInputs :
                              \E i \in 1..n : /\ name = asf_output_name(i - 1)
                                              /\ d = asfs[i]],
         metadata_json |-> File(json_dumps(
             [i \in 1..n |-> [filename |-> names[i],
                              unk1 |-> unks[i][1], unk2 |-> unks[i][2],
                              unk3 |-> unks[i][3], unk4 |-> unks[i][4],
                              unk5 |-> unks[i][5]]]))]
        : asfs \in [1..n -> AssetInputs],
          unks \in [1..n -> {UnkUsual, UnkOther, UnkTooBig}],
          names \in NameInputs(n),
          gone \in {0, n} }
      : n \in 0..MaxEntries }

-----------------------------------------------------------------------------
(* The state after construction: a.s3p to extract and then repack, or a    *)
(* dumped directory a/ to package and then extract again                   *)

Init ==
    /\ \/ /\ \E a \in ArchiveInputs : s3p_file = File(a)
          /\ directory = EmptyDirectory
          /\ todo = <<S3P_PATH, DIR_PATH>>
       \/ /\ s3p_file = NoFile
          /\ directory \in DirectoryInputs
          /\ todo = <<DIR_PATH, S3P_PATH>>
    /\ given = [s3p_file |-> s3p_file, directory |-> directory]
    /\ pc = "main"
    /\ status = "none"
    /\ reader_pos = 0
    /\ num_s3v = <<>>
    /\ index = 0
    /\ start_pointer = <<>>
    /\ length = <<>>
    /\ return_pointer = 0
    /\ s3v_file = <<>>
    /\ s3v_pos = 0
    /\ metadata = <<>>
    /\ s3vs = <<>>
    /\ s3v = NewWriter
    /\ s3p = NewWriter

\* the invocation ends (normally, by exit() or by an exception)
Finish(st) ==
    /\ pc' = "main"
    /\ todo' = Tail(todo)
    /\ status' = st

ExtractLocals == <<num_s3v, index, start_pointer, length, return_pointer,
                   s3v_file, s3v_pos>>
PackageLocals == <<s3vs, s3v, s3p>>

\* a fresh process: the locals of main() hold nothing yet
FreshLocals ==
    /\ reader_pos' = 0
    /\ num_s3v' = <<>>
    /\ index' = 0
    /\ start_pointer' = <<>>
    /\ length' = <<>>
    /\ return_pointer' = 0
    /\ s3v_file' = <<>>
    /\ s3v_pos' = 0
    /\ metadata' = <<>>
    /\ s3vs' = <<>>
    /\ s3v' = NewWriter
    /\ s3p' = NewWriter

-----------------------------------------------------------------------------
(* main(), the extract branch *)

\* open the input file, check its tag, read the number of entries
ReadS3P ==
    /\ pc = "main"
    /\ todo # <<>>
    /\ is_file(Head(todo))
    /\ LET file == s3p_file.content
           tag == read(file, 0, 4)
           format == Format(tag.data)
           n == read_u32(file, tag.pos)
       IN  IF format = "ValueError"
           THEN FreshLocals /\ Finish("ValueError")
           ELSE IF format # "S3P"
           THEN FreshLocals /\ Finish("exit")
           ELSE /\ reader_pos' = n.pos
                /\ num_s3v' = n.value
                /\ metadata' = <<>>
                /\ index' = 0
                /\ pc' = "for"
                /\ start_pointer' = <<>>
                /\ length' = <<>>
                /\ return_pointer' = 0
                /\ s3v_file' = <<>>
                /\ s3v_pos' = 0
                /\ s3vs' = <<>>
                /\ s3v' = NewWriter
                /\ s3p' = NewWriter
                /\ UNCHANGED <<todo, status>>
    /\ UNCHANGED <<s3p_file, directory, given>>

\* the head of the loop body: the descriptor pair of entry `index`
ReadDescriptor ==
    /\ pc = "for"
    /\ index < ToNat(num_s3v)
    /\ LET a == read_u32(s3p_file.content, reader_pos)
           b == read_u32(s3p_file.content, a.pos)
       IN  /\ start_pointer' = a.value
           /\ length' = b.value
           /\ reader_pos' = b.pos
           /\ return_pointer' = b.pos
    /\ pc' = "read_s3v"
    /\ UNCHANGED <<s3p_file, directory, todo, status, num_s3v, index,
                   s3v_file, s3v_pos, metadata, PackageLocals, given>>

\* seek to the entry and read its blob
ReadS3VFile ==
    /\ pc = "read_s3v"
    /\ LET r == read(s3p_file.content, ToNat(start_pointer), ToNat(length))
       IN  /\ s3v_file' = r.data
           /\ reader_pos' = r.pos
    /\ s3v_pos' = 0
    /\ pc' = "s3v"
    /\ UNCHANGED <<s3p_file, directory, todo, status, num_s3v, index,
                   start_pointer, length, return_pointer, metadata,
                   PackageLocals, given>>

\* variant: the assertion is not made
assumptions_skipped(asf_pointer) == TRUE

\* assert(asf_pointer == 32)
assumptions(asf_pointer) == asf_pointer = AsInt(32)

\* parse the blob, dump the asset, store the metadata
ParseS3V ==
    /\ pc = "s3v"
    /\ LET tag == read(s3v_file, 0, 4)
           format == Format(tag.data)
           asf_pointer == read_u32(s3v_file, tag.pos)
           asf_length == read_u32(s3v_file, asf_pointer.pos)
           unk1 == read_u32(s3v_file, asf_length.pos)
           unk2 == read_u32(s3v_file, unk1.pos)
           unk3 == read_u32(s3v_file, unk2.pos)
           unk4 == read_u32(s3v_file, unk3.pos)
           unk5 == read_u32(s3v_file, unk4.pos)
           asf == read(s3v_file, ToNat(asf_pointer.value),
                       ToNat(asf_length.value))
           asf_name == asf_output_name(index)
       IN  IF format = "ValueError"
           THEN /\ s3v_pos' = tag.pos
                /\ Finish("ValueError")
                /\ UNCHANGED <<directory, metadata>>
           ELSE IF format # "S3V"
           THEN /\ s3v_pos' = tag.pos
                /\ Finish("exit")
                /\ UNCHANGED <<directory, metadata>>
           ELSE IF ~assumptions(asf_pointer.value)
           THEN /\ s3v_pos' = unk5.pos
                /\ Finish("AssertionError")
                /\ UNCHANGED <<directory, metadata>>
           ELSE /\ s3v_pos' = asf.pos
                /\ directory' = [directory EXCEPT
                       !.files = (asf_name :> asf.data) @@ @]
                /\ metadata' = Append(metadata,
                       [filename |-> asf_name,
                        unk1 |-> unk1.value, unk2 |-> unk2.value,
                        unk3 |-> unk3.value, unk4 |-> unk4.value,
                        unk5 |-> unk5.value])
                /\ pc' = "return"
                /\ UNCHANGED <<todo, status>>
    /\ UNCHANGED <<s3p_file, reader_pos, num_s3v, index, start_pointer,
                   length, return_pointer, s3v_file, PackageLocals, given>>

\* return to read the next descriptor
Return ==
    /\ pc = "return"
    /\ reader_pos' = return_pointer
    /\ index' = index + 1
    /\ pc' = "for"
    /\ UNCHANGED <<s3p_file, directory, todo, status, num_s3v,
                   start_pointer, length, return_pointer, s3v_file, s3v_pos,
                   metadata, PackageLocals, given>>

\* variant: the metadata is dumped although entries are left to read
DumpMetadata_early ==
    /\ pc = "for"
    /\ directory' = [directory EXCEPT
           !.metadata_json = File(json_dumps(metadata))]
    /\ Finish("ok")
    /\ UNCHANGED <<s3p_file, reader_pos, ExtractLocals, metadata,
                   PackageLocals, given>>

\* after the loop: dump the metadata
DumpMetadata ==
    /\ pc = "for"
    /\ index >= ToNat(num_s3v)
    /\ directory' = [directory EXCEPT
           !.metadata_json = File(json_dumps(metadata))]
    /\ Finish("ok")
    /\ UNCHANGED <<s3p_file, reader_pos, ExtractLocals, metadata,
                   PackageLocals, given>>

-----------------------------------------------------------------------------
(* main(), the package branch *)

\* check that the input is a dumped S3P and read the metadata
ReadMetadata ==
    /\ pc = "main"
    /\ todo # <<>>
    /\ ~is_file(Head(todo))
    /\ reader_pos' = 0
    /\ num_s3v' = <<>>
    /\ index' = 0
    /\ start_pointer' = <<>>
    /\ length' = <<>>
    /\ return_pointer' = 0
    /\ s3v_file' = <<>>
    /\ s3v_pos' = 0
    /\ s3vs' = <<>>
    /\ s3v' = NewWriter
    /\ s3p' = NewWriter
    /\ IF ~metadata_exists(Head(todo))
       THEN metadata' = <<>> /\ Finish("exit")
       ELSE /\ metadata' = json_load(directory.metadata_json.content)
            /\ pc' = "asf"
            /\ UNCHANGED <<todo, status>>
    /\ UNCHANGED <<s3p_file, directory, given>>

\* variant: unk1 and unk2 are written in the wrong order
construct_s3v_swapped(s3v_metadata, asf) ==
    LET w0 == write(NewWriter, S3V)
        w1 == write_u32(w0, AsInt(32))
        w2 == write_u32(w1, AsInt(Len(asf)))
        w3 == write_u32(w2, s3v_metadata["unk2"])
        w4 == write_u32(w3, s3v_metadata["unk1"])
        w5 == write_u32(w4, s3v_metadata["unk3"])
        w6 == write_u32(w5, s3v_metadata["unk4"])
        w7 == write_u32(w6, s3v_metadata["unk5"])
    IN  write(w7, asf)

\* the S3V of one metadata record and its asf
construct_s3v(s3v_metadata, asf) ==
    LET w0 == write(NewWriter, S3V)
        w1 == write_u32(w0, AsInt(32))
        w2 == write_u32(w1, AsInt(Len(asf)))
        w3 == write_u32(w2, s3v_metadata["unk1"])
        w4 == write_u32(w3, s3v_metadata["unk2"])
        w5 == write_u32(w4, s3v_metadata["unk3"])
        w6 == write_u32(w5, s3v_metadata["unk4"])
        w7 == write_u32(w6, s3v_metadata["unk5"])
    IN  write(w7, asf)

\* one pass of the loop over the metadata: read the asf, construct the s3v
ConstructS3V ==
    /\ pc = "asf"
    /\ Len(s3vs) < Len(metadata)
    /\ LET s3v_metadata == metadata[Len(s3vs) + 1]
           name == s3v_metadata["filename"]
           w == construct_s3v(s3v_metadata, directory.files[name])
       IN  IF name \notin DOMAIN directory.files
           THEN Finish("FileNotFoundError") /\ UNCHANGED <<s3v, s3vs>>
           ELSE /\ s3v' = w
                /\ IF w.raised
                   THEN Finish("OverflowError") /\ UNCHANGED s3vs
                   ELSE /\ s3vs' = Append(s3vs, w)
                        /\ UNCHANGED <<pc, todo, status>>
    /\ UNCHANGED <<s3p_file, directory, reader_pos, ExtractLocals, metadata,
                   s3p, given>>

RECURSIVE write_descriptors_stuck(_, _, _)
\* variant: the pointer does not advance
write_descriptors_stuck(w, ws, s3v_pointer) ==
    IF ws = <<>> THEN w
    ELSE write_descriptors_stuck(
             write_u32(write_u32(w, AsInt(s3v_pointer)), AsInt(len(Head(ws)))),
             Tail(ws), s3v_pointer)

RECURSIVE write_descriptors(_, _, _)
\* for s3v in s3vs: the pointer and the length of each, the pointer advancing
write_descriptors(w, ws, s3v_pointer) ==
    IF ws = <<>> THEN w
    ELSE write_descriptors(
             write_u32(write_u32(w, AsInt(s3v_pointer)), AsInt(len(Head(ws)))),
             Tail(ws), s3v_pointer + len(Head(ws)))

\* the tag, the count and the descriptor table
WriteHeader ==
    /\ pc = "asf"
    /\ Len(s3vs) = Len(metadata)
    /\ LET w0 == write(NewWriter, S3P)
           w1 == write_u32(w0, AsInt(Len(s3vs)))
           w2 == write_descriptors(w1, s3vs, 8 + 8 * Len(s3vs))
       IN  /\ s3p' = w2
           /\ IF w2.raised
              THEN Finish("OverflowError")
              ELSE pc' = "s3vs" /\ UNCHANGED <<todo, status>>
    /\ UNCHANGED <<s3p_file, directory, reader_pos, ExtractLocals, metadata,
                   s3vs, s3v, given>>

RECURSIVE write_all(_, _)
\* for s3v in s3vs: s3p.write(s3v.read())
write_all(w, ws) ==
    IF ws = <<>> THEN w ELSE write_all(write(w, Head(ws).buffer), Tail(ws))

WriteS3Vs ==
    /\ pc = "s3vs"
    /\ s3p' = write_all(s3p, s3vs)
    /\ pc' = "terminator"
    /\ UNCHANGED <<s3p_file, directory, todo, status, reader_pos,
                   ExtractLocals, metadata, s3vs, s3v, given>>

\* s3p.write_u32(len(s3p))
WriteTerminator ==
    /\ pc = "terminator"
    /\ LET w == write_u32(s3p, AsInt(len(s3p)))
       IN  /\ s3p' = w
           /\ IF w.raised
              THEN Finish("OverflowError")
              ELSE pc' = "output" /\ UNCHANGED <<todo, status>>
    /\ UNCHANGED <<s3p_file, directory, reader_pos, ExtractLocals, metadata,
                   s3vs, s3v, given>>

\* write the s3p to the output file
WriteOutput ==
    /\ pc = "output"
    /\ s3p_file' = File(s3p.buffer)
    /\ Finish("ok")
    /\ UNCHANGED <<directory, reader_pos, ExtractLocals, metadata,
                   PackageLocals, given>>

-----------------------------------------------------------------------------

Next ==
    \/ ReadS3P
    \/ ReadDescriptor
    \/ ReadS3VFile
    \/ ParseS3V
    \/ Return
    \/ DumpMetadata
    \/ ReadMetadata
    \/ ConstructS3V
    \/ WriteHeader
    \/ WriteS3Vs
    \/ WriteTerminator
    \/ WriteOutput

Spec == Init /\ [][Next]_vars

-----------------------------------------------------------------------------
(* Reading the bytes of an archive directly, for the properties *)

First4(b) == SubSeq(b, 1, Min(4, Len(b)))

\* the unsigned little-endian value of the 4 bytes at offset off
ValueAt(b, off) == ToNat(SubSeq(b, off + 1, off + 4))

\* the value of the asset pointer field of a blob (bytes 4..8 of it)
PointerField(blob) == Canonical(SubSeq(blob, 5, Min(8, Len(blob))))

Failures == {"ValueError", "exit", "AssertionError"}

\* a well-formed archive: the S3P tag, a count n, n descriptor pairs, n
\* contiguous S3V wrappers with asset pointer 32, and a terminator equal to
\* the total length
WellFormed(a) ==
    /\ Len(a) >= 12
    /\ First4(a) = S3P
    /\ LET n == ValueAt(a, 4)
           off(i) == ValueAt(a, 8 + 8 * i)
           size(i) == ValueAt(a, 12 + 8 * i)
       IN  /\ n <= Len(a)
           /\ Len(a) >= 12 + 8 * n
           /\ \A i \in 0..(n - 1) :
                /\ off(i) = IF i = 0 THEN 8 + 8 * n
                            ELSE off(i - 1) + size(i - 1)
                /\ size(i) >= 32
                /\ size(i) <= Len(a)
                /\ off(i) + size(i) + 4 <= Len(a)
                /\ SubSeq(a, off(i) + 1, off(i) + 4) = S3V
                /\ ValueAt(a, off(i) + 4) = 32
                /\ ValueAt(a, off(i) + 8) = size(i) - 32
           /\ Len(a) = 4 + (IF n = 0 THEN 8 ELSE off(n - 1) + size(n - 1))
           /\ ValueAt(a, Len(a) - 4) = Len(a)

\* extract and package have both run on a given archive, and both succeeded
RoundTripDone ==
    /\ given.s3p_file.exists
    /\ todo = <<>>
    /\ pc = "main"
    /\ status = "ok"

\* C1: round-trip identity. For every well-formed S3P archive, extracting it
\* and packaging the unmodified directory again yields a file equal to the
\* original archive byte for byte.
C1_RoundTripIdentity ==
    (RoundTripDone /\ WellFormed(given.s3p_file.content))
        => s3p_file = given.s3p_file

\* C2: terminator self-consistency. The last 4 bytes of the buffer produced
\* by the package branch, as a little-endian unsigned integer, equal the total
\* length of that buffer, the terminator included.
C2_TerminatorIsTotalLength ==
    pc = "output"
        => ValueAt(s3p.buffer, Len(s3p.buffer) - 4) = Len(s3p.buffer)

\* C3: truncated input. An entry whose asset file and metadata record have
\* been written was read in full: the blob has the declared entry length, all
\* eight 4-byte fields of the wrapper were there, and the asset has the
\* declared asset length. (A declared length that extends past the remaining
\* bytes makes the extraction fail instead.)
C3_NoShortRead ==
    pc = "return"
        => /\ Len(s3v_file) = ToNat(length)
           /\ Len(s3v_file) >= 32
           /\ Len(directory.files[asf_output_name(index)])
                = ValueAt(s3v_file, 8)

\* C4: assumption enforcement. When the wrapper of the entry being parsed has
\* an asset pointer different from 32, the extraction fails at that entry: no
\* asset file is written, no metadata record is added, the sidecar is not
\* written and no later entry is processed (the invocation is over).
C4_AssetPointerEnforced ==
    [][(pc = "s3v" /\ PointerField(s3v_file) # <<32>>)
        => /\ pc' = "main"
           /\ todo' = Tail(todo)
           /\ status' \in Failures
           /\ directory' = directory
           /\ metadata' = metadata
           /\ index' = index]_vars

C4_Witness ==
    /\ status = "AssertionError"
    /\ pc = "main"
    /\ First4(s3v_file) = S3V
    /\ PointerField(s3v_file) = <<33>>
    /\ index = 1
    /\ Len(metadata) = 1
    /\ ~directory.metadata_json.exists
    /\ asf_output_name(1) \notin DOMAIN directory.files

\* C5: tag validation at both nesting levels. The extraction goes past offset
\* 0 only if the first 4 bytes of the archive are the S3P tag, and extracts an
\* entry only if the first 4 bytes of its blob are the S3V tag; with any other
\* leading bytes (the other recognised tag, an unknown tag, fewer than 4
\* bytes) it fails without writing that entry's asset or the sidecar.
C5_TagsValidated ==
    [][/\ (pc = "main" /\ todo # <<>> /\ is_file(Head(todo))
             /\ First4(s3p_file.content) # S3P)
          => /\ pc' = "main"
             /\ todo' = Tail(todo)
             /\ status' = IF First4(s3p_file.content) = S3V
                          THEN "exit" ELSE "ValueError"
             /\ directory' = directory
       /\ (pc = "s3v" /\ First4(s3v_file) # S3V)
          => /\ pc' = "main"
             /\ todo' = Tail(todo)
             /\ status' = IF First4(s3v_file) = S3P
                          THEN "exit" ELSE "ValueError"
             /\ directory' = directory
             /\ metadata' = metadata]_vars

C5_Witness ==
    /\ pc = "main"
    /\ status = "ValueError"
    /\ index = 1
    /\ Len(s3v_file) >= 4
    /\ First4(s3v_file) # S3V
    /\ First4(s3v_file) # S3P
    /\ Len(metadata) = 1
    /\ ~directory.metadata_json.exists
    /\ asf_output_name(1) \notin DOMAIN directory.files

\* the asset file a metadata record names
AssetOf(record) == directory.files[record["filename"]]

\* the wrapper the format prescribes for a metadata record and its asset
ExpectedWrapper(record) ==
    WrapperOf([asf |-> AssetOf(record),
               unk |-> <<record["unk1"], record["unk2"], record["unk3"],
                         record["unk4"], record["unk5"]>>])

RECURSIVE ExpectedOffset(_)
\* 8 + 8*n + the sum over j < i of (32 + len_j), i counted from 0
ExpectedOffset(i) ==
    IF i = 0 THEN 8 + 8 * Len(metadata)
    ELSE ExpectedOffset(i - 1) + 32 + Len(AssetOf(metadata[i]))

\* C6: descriptor table on encode. In the packaged buffer, descriptor i is
\* (offset_i, length_i) with length_i = 32 + len_i and offset_i = 8 + 8*n +
\* the sum over j < i of (32 + len_j), and the bytes in [offset_i, offset_i +
\* length_i) are wrapper i; the wrappers are contiguous and in metadata order
\* and end where the terminator starts.
C6_DescriptorTable ==
    pc = "output"
        => LET n == Len(metadata)
               out == s3p.buffer
           IN  /\ First4(out) = S3P
               /\ ValueAt(out, 4) = n
               /\ \A i \in 0..(n - 1) :
                    LET size == 32 + Len(AssetOf(metadata[i + 1]))
                    IN  /\ ValueAt(out, 8 + 8 * i) = ExpectedOffset(i)
                        /\ ValueAt(out, 12 + 8 * i) = size
                        /\ SubSeq(out, ExpectedOffset(i) + 1,
                                  ExpectedOffset(i) + size)
                             = ExpectedWrapper(metadata[i + 1])
               /\ Len(out) = ExpectedOffset(n) + 4

C6_Witness ==
    /\ pc = "output"
    /\ Len(metadata) = 2
    /\ Len(AssetOf(metadata[1])) = 2
    /\ Len(AssetOf(metadata[2])) = 1
    /\ metadata[1]["unk2"] # metadata[2]["unk2"]
    /\ ValueAt(s3p.buffer, 16) = 58

\* the first of the five opaque fields of a record that exceeds 2^32 - 1
\* (0 when none does)
FirstTooBig(record) ==
    LET big == {k \in 1..5 : Len(record[KEYS[k + 1]]) > 4}
    IN  IF big = {} THEN 0 ELSE CHOOSE k \in big : \A j \in big : k <= j

\* C7: range guard of write_u32. When the record being packaged holds an
\* opaque field greater than 2^32 - 1, the write_u32 of that field fails with
\* OverflowError and leaves the writer's buffer as it was (the tag, 32, the
\* asset length and the fields before it: nothing wrapped or truncated is
\* appended), and the packaging aborts without writing an archive.
C7_WriteU32RangeGuard ==
    [][(/\ pc = "asf"
        /\ Len(s3vs) < Len(metadata)
        /\ metadata[Len(s3vs) + 1]["filename"] \in DOMAIN directory.files
        /\ FirstTooBig(metadata[Len(s3vs) + 1]) # 0)
        => LET record == metadata[Len(s3vs) + 1]
               k == FirstTooBig(record)
           IN  /\ status' = "OverflowError"
               /\ pc' = "main"
               /\ todo' = Tail(todo)
               /\ s3v'.raised
               /\ s3v'.buffer = SubSeq(ExpectedWrapper(record), 1,
                                       12 + 4 * (k - 1))
               /\ s3vs' = s3vs
               /\ s3p_file' = s3p_file]_vars

C7_Witness ==
    /\ status = "OverflowError"
    /\ pc = "main"
    /\ Len(s3vs) = 1
    /\ FirstTooBig(metadata[2]) = 3
    /\ Len(s3v.buffer) = 20
    /\ ~s3p_file.exists

\* C8: outer cursor restoration. At the head of the extract loop the outer
\* cursor is at byte 8 + 8*index: there descriptor `index` is read, and there
\* the cursor is after all entries (index = count).
C8_OuterCursor ==
    pc = "for" => reader_pos = 8 + 8 * index

\* C9: sidecar ordering and no partial success. The sidecar is written only
\* by the step that ends a successful extraction, after all `count` asset
\* files 0..count-1 have been written, and then holds exactly `count` records
\* in entry order; an extraction that fails never writes it.
C9_SidecarLast ==
    [][/\ directory'.metadata_json # directory.metadata_json
          => /\ pc = "for" /\ pc' = "main"
             /\ status' = "ok"
             /\ todo' = Tail(todo)
             /\ index = ToNat(num_s3v)
             /\ \A i \in 0..(index - 1) :
                    asf_output_name(i) \in DOMAIN directory.files
             /\ directory'.files = directory.files
             /\ directory'.metadata_json.exists
             /\ LET doc == json_load(directory'.metadata_json.content)
                IN  /\ Len(doc) = ToNat(num_s3v)
                    /\ \A i \in 1..Len(doc) :
                          doc[i]["filename"] = asf_output_name(i - 1)
       /\ (pc \in {"for", "read_s3v", "s3v", "return"}
             /\ status' \in Failures)
          => directory'.metadata_json = directory.metadata_json]_vars

C9_Witness ==
    /\ given.s3p_file.exists
    /\ Len(todo) = 1
    /\ pc = "main"
    /\ status = "ok"
    /\ num_s3v = <<2>>
    /\ directory.metadata_json.exists
    /\ Len(directory.metadata_json.content) = 2
    /\ DOMAIN directory.files = {asf_output_name(0), asf_output_name(1)}

\* a dumped directory whose i-th record names "<i>.asf", whose opaque fields
\* lie in 0..2^32-1 and whose asset files are all there
Packable(d) ==
    /\ d.metadata_json.exists
    /\ LET md == json_load(d.metadata_json.content)
       IN  \A i \in 1..Len(md) :
             /\ md[i]["filename"] = asf_output_name(i - 1)
             /\ md[i]["filename"] \in DOMAIN d.files
             /\ \A k \in 2..6 : Len(md[i][KEYS[k]]) <= 4

\* C10: inverse round trip. For a metadata list of n records whose i-th file
\* name is "<i>.asf" and whose opaque fields lie in 0..2^32-1, and any asset
\* payloads, packaging succeeds and extracting the packaged archive succeeds
\* and yields exactly n assets equal to the inputs, in the same order, and a
\* metadata list equal to the input list.
C10_InverseRoundTrip ==
    (~given.s3p_file.exists /\ Packable(given.directory))
        => /\ (Len(todo) < 2 /\ pc = "main") => status = "ok"
           /\ (todo = <<>> /\ pc = "main")
                => /\ num_s3v
                        = AsInt(Len(given.directory.metadata_json.content))
                   /\ metadata
                        = json_load(given.directory.metadata_json.content)
                   /\ directory = given.directory

C10_Witness ==
    /\ ~given.s3p_file.exists
    /\ Packable(given.directory)
    /\ todo = <<>>
    /\ pc = "main"
    /\ status = "ok"
    /\ Len(metadata) = 2
    /\ metadata[1]["unk2"] = <<255, 255, 255, 255>>
    /\ metadata[2]["unk2"] = <<>>
    /\ Len(directory.files[asf_output_name(0)]) = 1
    /\ Len(directory.files[asf_output_name(1)]) = 2

====
